---- MODULE Spec2Model ----
(***************************************************************************)
(* Model of the airdrop claim service (src/main.py): the /claim handler    *)
(* claim_airdrop, the Firestore collection "airdrops" it reads and writes, *)
(* and the Solana ledger it queries and submits to.                        *)
(*                                                                         *)
(* Every blocking call of the handler (token verification, document read,  *)
(* the three RPC queries, the submission, the document write) is one       *)
(* action, so requests served in parallel interleave exactly at the points *)
(* where the handler waits on a collaborator.  An exception that the       *)
(* handler does not catch ends the request with the framework's 500        *)
(* response.  Document reads are taken to be reliable.                     *)
(***************************************************************************)
EXTENDS Integers, Sequences, FiniteSets, TLC

\* ------------------------------------------------------------------ bounds
MaxReq == 2          \* number of claim requests in one behaviour
MaxTokens == 2       \* largest initial sender balance, in whole tokens
MaxDecimals == 1     \* largest decimals value the mint reports
MaxMintDecimals == 255  \* largest decimals value packed on its own (a u8)

Reqs == 1..MaxReq
Uids == {"u1", "u2"}
NoUid == ""

\* Wallet strings a client may send; "abc!" is not a base58 public key.
WellFormed == {"WalletA"}
Wallets == WellFormed \cup {"abc!"}

\* Authorization headers: absent, wrong scheme, Bearer with a token that
\* does not verify, Bearer with a token of a user.
NoHeader == [scheme |-> "", token |-> ""]
Headers == {NoHeader,
            [scheme |-> "Basic", token |-> "u1"],
            [scheme |-> "Bearer", token |-> "forged"]}
           \cup {[scheme |-> "Bearer", token |-> u] : u \in Uids}

NoSig == 0
NoDoc == [uid |-> NoUid, wallet |-> "", tx |-> NoSig, claimed |-> FALSE]
ParseError == <<"error">>
CHECKED_TRANSFER == 12

\* ------------------------------------------------------------------- state
VARIABLES
  req,        \* per request: position in the handler and its locals;
              \* calls, submits, writes count its ledger calls, submissions
              \* and document writes, saw is the document its check read,
              \* funded whether the sender's balance covered the amount
              \* when the request prepared its transfer
  airdrops,   \* Firestore collection "airdrops": uid -> document or NoDoc
  chain,      \* ledger: mint decimals, sender token account, balances
  landed,     \* history: transfers the ledger accepted
  acked,      \* history: submissions whose signature came back to a request
  concurrent, \* history: pairs of requests that were in flight together
  pack        \* the transfer payload computed for one decimals value

vars == <<req, airdrops, chain, landed, acked, concurrent, pack>>

\* ----------------------------------------------------------------- helpers
RECURSIVE Pow10(_)
Pow10(n) == IF n = 0 THEN 1 ELSE 10 * Pow10(n - 1)

\* A parser that accepts any string.
FromStringLenient(w) == <<"pk", w>>

\* Pubkey.from_string: a public key for a well-formed string, else raises.
FromString(w) == IF w \in WellFormed THEN <<"pk", w>> ELSE ParseError

\* find_ata: program-derived address of the (owner, mint) token account.
find_ata(owner, mint) == <<"ata", owner, "Token2022", mint>>

AIRDROP_PUBKEY == <<"pk", "airdrop">>
MINT_ADDRESS == <<"pk", "mint">>

\* A verifier that takes any token for the first user's.
VerifyAnyToken(t) == [uid |-> "u1"]

\* auth.verify_id_token: the claims of a token that verifies, else raises.
verify_id_token(t) == IF t \in Uids THEN [uid |-> t] ELSE [uid |-> NoUid]

\* The one-claim-per-user test on the document that was read.
\* A handler without the one-claim-per-user test.
DocExistsNever(doc) == FALSE

DocExists(doc) == doc # NoDoc

Response(status, code, detail, wallet, tx) ==
  [status |-> status, code |-> code, detail |-> detail,
   wallet |-> wallet, tx |-> tx,
   explorer |-> IF status = "success"
                THEN <<"https://explorer.solana.com/tx/", tx>> ELSE <<>>]

NoResponse == Response("", 0, "", "", NoSig)
InternalError == Response("error", 500, "Internal Server Error", "", NoSig)

\* An already_claimed body that drops the stored signature.
AlreadyClaimedBlank(doc) == Response("already_claimed", 200, "", "", NoSig)

\* The body returned when the user's document exists.
AlreadyClaimed(doc) == Response("already_claimed", 200, "", "", doc.tx)

IdleReq ==
  [pc |-> "idle", header |-> NoHeader, uid |-> NoUid, wallet |-> "",
   saw |-> NoDoc, decimals |-> 0, raw_amount |-> 0, instructions |-> <<>>,
   sig |-> NoSig, result |-> NoResponse, failedAt |-> "",
   calls |-> 0, submits |-> 0, writes |-> 0, funded |-> FALSE]

Active(r) == req[r].pc \notin {"idle", "done"}

\* The request ends: a returned body or a raised HTTPException / exception.
Finish(q, response, stage) ==
  [q EXCEPT !.pc = "done", !.result = response, !.failedAt = stage]

NoPack == [pc |-> "off", decimals |-> 0, power |-> 0, raw_amount |-> <<>>, data |-> <<>>]

\* ------------------------------------------------------------------- Init
Init ==
  /\ req = [r \in Reqs |-> IdleReq]
  /\ airdrops = [u \in Uids |-> NoDoc]
  /\ \E d \in 0..MaxDecimals, k \in 0..MaxTokens, s \in BOOLEAN :
       chain = [decimals |-> d, senderAta |-> s,
                balance |-> IF s THEN k * Pow10(d) ELSE 0,
                atas |-> {},
                nextSig |-> 1]
  /\ landed = {}
  /\ acked = {}
  /\ concurrent = {}
  /\ pack = NoPack

\* ---------------------------------------------------------------- actions
\* A request arrives with a wallet string and an Authorization header.
\* 1. Verify Firebase ID token.
VerifyToken(r) ==
  /\ req[r].pc = "idle"
  /\ IF r = 1 THEN TRUE ELSE req[r - 1].pc # "idle"
  /\ \E h \in Headers, w \in Wallets :
       LET decoded == verify_id_token(h.token)
           arrived == [req[r] EXCEPT !.header = h, !.wallet = w]
       IN  req' = [req EXCEPT ![r] =
             IF h.scheme # "Bearer"
             THEN Finish(arrived, Response("error", 401, "Missing auth token", "", NoSig), "auth")
             ELSE IF decoded.uid = NoUid
             THEN Finish(arrived, Response("error", 401, "Invalid Firebase token", "", NoSig), "auth")
             ELSE [arrived EXCEPT !.pc = "check", !.uid = decoded.uid]]
  /\ concurrent' = concurrent \cup {{r, q} : q \in {x \in Reqs : Active(x)}}
  /\ UNCHANGED <<airdrops, chain, landed, acked, pack>>

\* 2. Enforce one-claim-per-user: read the document, return it if present.
\* 3. Validate wallet (no collaborator is called between the two).
GetDoc(r) ==
  /\ req[r].pc = "check"
  /\ LET doc == airdrops[req[r].uid]
         seen == [req[r] EXCEPT !.saw = doc]
     IN  req' = [req EXCEPT ![r] =
           IF DocExists(doc)
           THEN Finish(seen, AlreadyClaimed(doc), "")
           ELSE IF FromString(req[r].wallet) = ParseError
           THEN Finish(seen, Response("error", 400, "Invalid wallet address", "", NoSig), "wallet")
           ELSE [seen EXCEPT !.pc = "supply"]]
  /\ UNCHANGED <<airdrops, chain, landed, acked, concurrent, pack>>

\* Unbounded naturals are little-endian sequences of bytes without leading
\* zero bytes (Python's integers do not overflow; 10 ** 255 has 106 bytes).
RECURSIVE Bytes(_)
Bytes(n) == IF n = 0 THEN <<>> ELSE <<n % 256>> \o Bytes(n \div 256)

RECURSIVE TimesTen(_, _)
TimesTen(bytes, carry) ==
  IF bytes = <<>>
  THEN Bytes(carry)
  ELSE LET v == Head(bytes) * 10 + carry
       IN  <<v % 256>> \o TimesTen(Tail(bytes), v \div 256)

RECURSIVE LittleEndian(_, _)
LittleEndian(bytes, len) ==
  IF len = 0 THEN <<>>
  ELSE IF bytes = <<>> THEN <<0>> \o LittleEndian(<<>>, len - 1)
  ELSE <<Head(bytes)>> \o LittleEndian(Tail(bytes), len - 1)

StructError == <<"struct.error">>

\* The payload with the amount written most significant byte first.
RECURSIVE BigEndian(_, _)
BigEndian(bytes, len) ==
  IF len = 0 THEN <<>>
  ELSE IF Len(bytes) >= len THEN <<bytes[len]>> \o BigEndian(bytes, len - 1)
  ELSE <<0>> \o BigEndian(bytes, len - 1)

PackBigEndian(op, amount, decimals) ==
  IF op > 255 \/ decimals > 255 \/ Len(amount) > 8
  THEN StructError
  ELSE <<op>> \o BigEndian(amount, 8) \o <<decimals>>

\* struct.pack("<BQB", op, amount, decimals): one opcode byte, the amount as
\* eight little-endian bytes, one decimals byte; raises struct.error when a
\* value does not fit its field.
PackBQB(op, amount, decimals) ==
  IF op > 255 \/ decimals > 255 \/ Len(amount) > 8
  THEN StructError
  ELSE <<op>> \o LittleEndian(amount, 8) \o <<decimals>>

Pack(op, amount, decimals) == PackBQB(op, Bytes(amount), decimals)

RECURSIVE FromLittleEndian(_)
FromLittleEndian(bytes) ==
  IF bytes = <<>> THEN 0 ELSE Head(bytes) + 256 * FromLittleEndian(Tail(bytes))

\* Account metas are <<pubkey, is_signer, is_writable>>.
CreateAtaInstruction(receiver_pubkey, receiver_ata) ==
  [program_id |-> "AssociatedTokenProgram",
   accounts |-> << <<AIRDROP_PUBKEY, TRUE, TRUE>>,
                   <<receiver_ata, FALSE, TRUE>>,
                   <<receiver_pubkey, FALSE, FALSE>>,
                   <<MINT_ADDRESS, FALSE, FALSE>>,
                   <<"SystemProgram", FALSE, FALSE>>,
                   <<"Token2022", FALSE, FALSE>>,
                   <<"SysvarRent", FALSE, FALSE>> >>,
   data |-> <<>>]

TransferInstruction(sender_ata, receiver_ata, raw_amount, decimals) ==
  [program_id |-> "Token2022",
   accounts |-> << <<sender_ata, FALSE, TRUE>>,
                   <<MINT_ADDRESS, FALSE, FALSE>>,
                   <<receiver_ata, FALSE, TRUE>>,
                   <<AIRDROP_PUBKEY, TRUE, FALSE>> >>,
   data |-> Pack(CHECKED_TRANSFER, raw_amount, decimals)]

\* An instruction list with the transfer ahead of the account creation.
BuildInstructionsTransferFirst(receiver_pubkey, ataMissing, raw_amount, decimals) ==
  LET sender_ata == find_ata(AIRDROP_PUBKEY, MINT_ADDRESS)
      receiver_ata == find_ata(receiver_pubkey, MINT_ADDRESS)
  IN  <<TransferInstruction(sender_ata, receiver_ata, raw_amount, decimals)>>
      \o (IF ataMissing THEN <<CreateAtaInstruction(receiver_pubkey, receiver_ata)>>
                         ELSE <<>>)

\* The instruction list of lines 159-198, given the account lookup's answer.
BuildInstructions(receiver_pubkey, ataMissing, raw_amount, decimals) ==
  LET sender_ata == find_ata(AIRDROP_PUBKEY, MINT_ADDRESS)
      receiver_ata == find_ata(receiver_pubkey, MINT_ADDRESS)
  IN  (IF ataMissing THEN <<CreateAtaInstruction(receiver_pubkey, receiver_ata)>>
                     ELSE <<>>)
      \o <<TransferInstruction(sender_ata, receiver_ata, raw_amount, decimals)>>

\* The ledger runs the instructions of a transaction in order; any failing
\* instruction fails the whole transaction.
Failed == [failed |-> TRUE]

ExecuteOne(c, ins) ==
  IF c = Failed THEN Failed
  ELSE IF ins.program_id = "AssociatedTokenProgram"
  THEN IF ins.accounts[2][1] \in c.atas THEN Failed
       ELSE [c EXCEPT !.atas = @ \cup {ins.accounts[2][1]}]
  ELSE LET amount == FromLittleEndian(SubSeq(ins.data, 2, 9))
       IN  IF /\ c.senderAta
              /\ ins.accounts[3][1] \in c.atas
              /\ ins.data[10] = c.decimals
              /\ c.balance >= amount
           THEN [c EXCEPT !.balance = @ - amount]
           ELSE Failed

RECURSIVE Execute(_, _)
Execute(c, instructions) ==
  IF instructions = <<>> THEN c
  ELSE Execute(ExecuteOne(c, Head(instructions)), Tail(instructions))

\* 4. Prepare token transfer: mint decimals.
GetTokenSupply(r) ==
  /\ req[r].pc = "supply"
  /\ \E ok \in BOOLEAN :
       req' = [req EXCEPT ![r] =
         IF ok
         THEN [@ EXCEPT !.pc = "acct", !.calls = @ + 1,
                        !.decimals = chain.decimals,
                        !.raw_amount = 1 * Pow10(chain.decimals),
                        !.funded = chain.senderAta
                                   /\ chain.balance >= Pow10(chain.decimals)]
         ELSE [Finish(req[r], InternalError, "supply") EXCEPT !.calls = @ + 1]]
  /\ UNCHANGED <<airdrops, chain, landed, acked, concurrent, pack>>

\* 4. Prepare token transfer: "create ATA if missing", then the transfer.
GetAccountInfo(r) ==
  /\ req[r].pc = "acct"
  /\ LET receiver_pubkey == FromString(req[r].wallet)
         receiver_ata == find_ata(receiver_pubkey, MINT_ADDRESS)
     IN  \E ok \in BOOLEAN :
           req' = [req EXCEPT ![r] =
             IF ok
             THEN [@ EXCEPT !.pc = "blockhash", !.calls = @ + 1,
                            !.instructions =
                               BuildInstructions(receiver_pubkey,
                                                 receiver_ata \notin chain.atas,
                                                 req[r].raw_amount, req[r].decimals)]
             ELSE [Finish(req[r], InternalError, "acct") EXCEPT !.calls = @ + 1]]
  /\ UNCHANGED <<airdrops, chain, landed, acked, concurrent, pack>>

\* A handler that saves the claim before it sends the transaction.
GetLatestBlockhashSavingFirst(r) ==
  /\ req[r].pc = "blockhash"
  /\ \E ok \in BOOLEAN :
       req' = [req EXCEPT ![r] =
         IF ok THEN [@ EXCEPT !.pc = "send", !.calls = @ + 1]
         ELSE [Finish(req[r], InternalError, "blockhash") EXCEPT !.calls = @ + 1]]
  /\ airdrops' = [airdrops EXCEPT ![req[r].uid] =
       [uid |-> req[r].uid, wallet |-> req[r].wallet, tx |-> NoSig, claimed |-> TRUE]]
  /\ UNCHANGED <<chain, landed, acked, concurrent, pack>>

\* 5. Send transaction: recent blockhash.
GetLatestBlockhash(r) ==
  /\ req[r].pc = "blockhash"
  /\ \E ok \in BOOLEAN :
       req' = [req EXCEPT ![r] =
         IF ok THEN [@ EXCEPT !.pc = "send", !.calls = @ + 1]
         ELSE [Finish(req[r], InternalError, "blockhash") EXCEPT !.calls = @ + 1]]
  /\ UNCHANGED <<airdrops, chain, landed, acked, concurrent, pack>>

\* A handler that swallows the submission's exception and saves anyway.
AfterSendIgnoringFailure(r, returned, sig) ==
  [req[r] EXCEPT !.pc = "save", !.sig = sig, !.calls = @ + 1, !.submits = @ + 1]

\* A handler that submits again when the submission raised.
AfterSendRetrying(r, returned, sig) ==
  IF returned
  THEN [req[r] EXCEPT !.pc = "save", !.sig = sig,
                      !.calls = @ + 1, !.submits = @ + 1]
  ELSE [req[r] EXCEPT !.calls = @ + 1, !.submits = @ + 1]

\* What the handler does with the outcome of send_raw_transaction: a
\* returned signature moves on to the save, an exception ends the request.
AfterSend(r, returned, sig) ==
  IF returned
  THEN [req[r] EXCEPT !.pc = "save", !.sig = sig,
                      !.calls = @ + 1, !.submits = @ + 1]
  ELSE [Finish(req[r], InternalError, "send") EXCEPT !.calls = @ + 1, !.submits = @ + 1]

\* 5. Send transaction.  The call may fail before the node sees the
\* transaction ("down"), the node may process it and answer ("ok"), or the
\* node may process it while the answer never arrives ("lost").
SendRawTransaction(r) ==
  /\ req[r].pc = "send"
  /\ \E net \in {"down", "ok", "lost"} :
       LET sig == chain.nextSig
           after == Execute(chain, req[r].instructions)
           accepted == net # "down" /\ after # Failed
       IN  /\ chain' = IF accepted THEN [after EXCEPT !.nextSig = @ + 1]
                       ELSE chain
           /\ landed' = IF accepted
                        THEN landed \cup {[req |-> r, uid |-> req[r].uid, sig |-> sig]}
                        ELSE landed
           /\ acked' = IF accepted /\ net = "ok"
                       THEN acked \cup {[req |-> r, uid |-> req[r].uid, sig |-> sig]}
                       ELSE acked
           /\ req' = [req EXCEPT ![r] = AfterSend(r, accepted /\ net = "ok", sig)]
  /\ UNCHANGED <<airdrops, concurrent, pack>>

\* A document that leaves out the signature.
ClaimDocWithoutTx(r) ==
  [uid |-> req[r].uid, wallet |-> req[r].wallet, tx |-> NoSig, claimed |-> TRUE]

\* A document that leaves the claimed flag unset.
ClaimDocUnclaimed(r) ==
  [uid |-> req[r].uid, wallet |-> req[r].wallet, tx |-> req[r].sig, claimed |-> FALSE]

\* The document written by doc_ref.set.
ClaimDoc(r) ==
  [uid |-> req[r].uid, wallet |-> req[r].wallet, tx |-> req[r].sig, claimed |-> TRUE]

\* A handler that writes one shared document instead of the user's own.
SetDocShared(r) ==
  /\ req[r].pc = "save"
  /\ \E ok \in BOOLEAN :
       IF ok
       THEN /\ airdrops' = [u \in Uids |-> ClaimDoc(r)]
            /\ req' = [req EXCEPT ![r] =
                 [Finish(req[r], Response("success", 200, "", req[r].wallet, req[r].sig), "")
                    EXCEPT !.writes = @ + 1]]
       ELSE /\ airdrops' = airdrops
            /\ req' = [req EXCEPT ![r] = Finish(req[r], InternalError, "save")]
  /\ UNCHANGED <<chain, landed, acked, concurrent, pack>>

\* 6. Save claim: doc_ref.set writes the document whether or not one exists.
SetDoc(r) ==
  /\ req[r].pc = "save"
  /\ \E ok \in BOOLEAN :
       IF ok
       THEN /\ airdrops' = [airdrops EXCEPT ![req[r].uid] = ClaimDoc(r)]
            /\ req' = [req EXCEPT ![r] =
                 [Finish(req[r], Response("success", 200, "", req[r].wallet, req[r].sig), "")
                    EXCEPT !.writes = @ + 1]]
       ELSE /\ airdrops' = airdrops
            /\ req' = [req EXCEPT ![r] = Finish(req[r], InternalError, "save")]
  /\ UNCHANGED <<chain, landed, acked, concurrent, pack>>

Next ==
  \E r \in Reqs :
    \/ VerifyToken(r)
    \/ GetDoc(r)
    \/ GetTokenSupply(r)
    \/ GetAccountInfo(r)
    \/ GetLatestBlockhash(r)
    \/ SendRawTransaction(r)
    \/ SetDoc(r)

Spec == Init /\ [][Next]_vars

\* The handler of a request in flight runs on: every blocking call returns
\* or raises.
Handle(r) ==
  \/ GetDoc(r)
  \/ GetTokenSupply(r)
  \/ GetAccountInfo(r)
  \/ GetLatestBlockhash(r)
  \/ SendRawTransaction(r)
  \/ SetDoc(r)

FairSpec == Spec /\ \A r \in Reqs : WF_vars(Handle(r))

\* --------------------------------------------- the payload, for every decimals
\* Lines 155-157 and 196 on their own: the mint reports a decimals value, the
\* handler computes the raw amount and packs the transfer data.
PackInit ==
  /\ req = [r \in Reqs |-> IdleReq]
  /\ airdrops = [u \in Uids |-> NoDoc]
  /\ chain = [decimals |-> 0, senderAta |-> FALSE, balance |-> 0,
              atas |-> {}, nextSig |-> 1]
  /\ landed = {}
  /\ acked = {}
  /\ concurrent = {}
  /\ \E d \in 0..MaxMintDecimals :
       pack = [NoPack EXCEPT !.pc = "decimals", !.decimals = d]

\* raw_amount = 1 * (10 ** decimals): the power starts at 1 ...
RawAmount ==
  /\ pack.pc = "decimals"
  /\ pack' = [pack EXCEPT !.pc = "power", !.power = 0, !.raw_amount = <<1>>]
  /\ UNCHANGED <<req, airdrops, chain, landed, acked, concurrent>>

\* ... and is multiplied by ten, decimals times.
RawAmountTimesTen ==
  /\ pack.pc = "power"
  /\ pack.power < pack.decimals
  /\ pack' = [pack EXCEPT !.power = @ + 1, !.raw_amount = TimesTen(@, 0)]
  /\ UNCHANGED <<req, airdrops, chain, landed, acked, concurrent>>

TransferData ==
  /\ pack.pc = "power"
  /\ pack.power = pack.decimals
  /\ pack' = [pack EXCEPT !.pc = "packed",
                          !.data = PackBQB(CHECKED_TRANSFER, pack.raw_amount, pack.decimals)]
  /\ UNCHANGED <<req, airdrops, chain, landed, acked, concurrent>>

PackNext == RawAmount \/ RawAmountTimesTen \/ TransferData

PackSpec == PackInit /\ [][PackNext]_vars

\* ------------------------------------------------------- history predicates
Authorized(r) == req[r].uid # NoUid

\* No two requests of identity u were ever in flight together.
Sequential(u) ==
  \A p \in concurrent : \E r \in p : req[r].uid # u

LandedFor(u) == {t \in landed : t.uid = u}

\* Request r got its transfer accepted and ended without writing a document.
Unrecorded(r) ==
  /\ \E t \in landed : t.req = r
  /\ req[r].pc = "done"
  /\ req[r].writes = 0

Malformed(r) == req[r].pc # "idle" /\ req[r].wallet \notin WellFormed

\* ------------------------------------------------------------------ claims
\* C1 (as stated): for an identity whose requests come one after another,
\* whatever collaborator calls fail, the ledger accepts at most one transfer.
C1_AtMostOnePayout ==
  \A u \in Uids : Sequential(u) => Cardinality(LandedFor(u)) <= 1

\* C1 (amended): for an identity whose requests come one after another, the
\* ledger accepts at most one transfer as long as no request whose transfer
\* was accepted has ended without writing its document.
C1_AtMostOnePayoutWhileRecorded ==
  \A u \in Uids :
    (Sequential(u) /\ \A r \in Reqs : req[r].uid = u => ~Unrecorded(r))
      => Cardinality(LandedFor(u)) <= 1

\* C1 witness: a first request was paid and recorded, a later one of the
\* same identity has been answered, and one transfer has landed.
C1_Witness ==
  \E r1, r2 \in Reqs :
    /\ r1 < r2 /\ Authorized(r1) /\ req[r1].uid = req[r2].uid
    /\ Sequential(req[r1].uid)
    /\ req[r1].result.status = "success"
    /\ req[r2].pc = "done"
    /\ Cardinality(LandedFor(req[r1].uid)) = 1

\* C2: two requests of one identity that are in flight together never both
\* find the document absent and both submit a transaction.
C2_ConcurrentSingleSubmission ==
  \A r1, r2 \in Reqs :
    (/\ r1 # r2 /\ Authorized(r1) /\ req[r1].uid = req[r2].uid
     /\ {r1, r2} \in concurrent)
      => ~(/\ req[r1].saw = NoDoc /\ req[r1].submits >= 1
           /\ req[r2].saw = NoDoc /\ req[r2].submits >= 1)

\* C3: when an identity claims twice in sequence and the first call returns
\* success with signature S, the second returns already_claimed with S.
C3_SecondCallAlreadyClaimed ==
  \A r1, r2 \in Reqs :
    (/\ r1 < r2 /\ Authorized(r1) /\ req[r1].uid = req[r2].uid
     /\ Sequential(req[r1].uid)
     /\ req[r1].result.status = "success"
     /\ req[r2].pc = "done")
      => /\ req[r2].result.status = "already_claimed"
         /\ req[r2].result.tx = req[r1].result.tx

\* C3 witness: a second call in sequence has answered already_claimed.
C3_Witness ==
  \E r1, r2 \in Reqs :
    /\ r1 < r2 /\ Authorized(r1) /\ req[r1].uid = req[r2].uid
    /\ Sequential(req[r1].uid)
    /\ req[r1].result.status = "success"
    /\ req[r2].result.status = "already_claimed"
    /\ req[r2].result.tx # NoSig

\* C4: while the sender's token account holds less than 10^decimals (and has
\* held no more since the start, nothing having been paid out), no request
\* submits a transaction or writes a document.
C4_ExhaustedBeforeSubmission ==
  (chain.senderAta /\ landed = {} /\ chain.balance < Pow10(chain.decimals))
    => \A r \in Reqs : req[r].submits = 0 /\ req[r].writes = 0

\* C5: a request whose check finds a document answers already_claimed with
\* the stored signature in that very step, having made no ledger call and
\* leaving the collection and the ledger as they were; and no request makes
\* a ledger call before its check has found the document absent.
C5_AlreadyClaimedShortCircuit ==
  /\ [][\A r \in Reqs :
          (/\ req[r].pc = "check" /\ req'[r] # req[r]
           /\ DocExists(airdrops[req[r].uid]))
            => /\ req'[r].pc = "done"
               /\ req'[r].result.status = "already_claimed"
               /\ req'[r].result.tx = airdrops[req[r].uid].tx
               /\ req'[r].calls = 0 /\ req'[r].submits = 0 /\ req'[r].writes = 0
               /\ airdrops' = airdrops /\ chain' = chain /\ landed' = landed]_vars
  /\ [](\A r \in Reqs :
          /\ req[r].calls > 0 => (req[r].pc \notin {"idle", "check"} /\ req[r].saw = NoDoc)
          /\ req[r].result.status = "already_claimed"
               => req[r].calls = 0 /\ req[r].submits = 0 /\ req[r].writes = 0)

\* C5 witness: a request has been answered already_claimed from a stored
\* document.
C5_Witness ==
  \E r \in Reqs :
    /\ req[r].result.status = "already_claimed"
    /\ DocExists(req[r].saw)
    /\ req[r].result.tx = req[r].saw.tx
    /\ airdrops[req[r].uid] = req[r].saw

\* C6: a document exists for an identity only if a submission made for that
\* identity was acknowledged, and it holds the signature that came back.
C6_NoPersistenceBeforeSubmission ==
  \A u \in Uids :
    DocExists(airdrops[u])
      => \E t \in acked : t.uid = u /\ t.sig = airdrops[u].tx /\ t \in landed

\* C6 witness: a document has been written.
C6_Witness ==
  \E u \in Uids : DocExists(airdrops[u]) /\ airdrops[u].tx # NoSig

\* C7: a document, once written, is never changed or deleted.
C7_RecordImmutable ==
  [][\A u \in Uids : DocExists(airdrops[u]) => airdrops'[u] = airdrops[u]]_vars

\* C8: a request submits at most once, and a request whose submission call
\* failed has ended with an error response and has written no document.
C8_SingleSubmissionPerRequest ==
  \A r \in Reqs :
    /\ req[r].submits <= 1
    /\ (req[r].submits = 1 /\ req[r].sig = NoSig)
         => /\ req[r].pc = "done"
            /\ req[r].result.status = "error"
            /\ req[r].writes = 0

\* C8 witness: a submission call has failed.
C8_Witness ==
  \E r \in Reqs : req[r].submits = 1 /\ req[r].sig = NoSig /\ req[r].failedAt = "send"

\* C9: while the sender's token account does not exist, no request builds
\* or submits a transaction or writes a document.
C9_SenderAccountMissing ==
  \A r \in Reqs :
    ~chain.senderAta
      => /\ req[r].instructions = <<>>
         /\ req[r].submits = 0
         /\ req[r].writes = 0

\* C10 (as stated): an authenticated request with a malformed wallet string
\* ends as invalid wallet, with no ledger call, submission or document write.
C10_MalformedWalletRejected ==
  \A r \in Reqs :
    (Authorized(r) /\ Malformed(r) /\ req[r].pc = "done")
      => /\ req[r].result.code = 400
         /\ req[r].result.detail = "Invalid wallet address"
         /\ req[r].calls = 0 /\ req[r].submits = 0 /\ req[r].writes = 0

\* C10 (amended): an authenticated request with a malformed wallet string
\* makes no ledger call, submission or document write; it ends as invalid
\* wallet when its check found no document, and as already_claimed when its
\* check found one.
C10_MalformedWalletNoEffect ==
  \A r \in Reqs :
    (Authorized(r) /\ Malformed(r))
      => /\ req[r].calls = 0 /\ req[r].submits = 0 /\ req[r].writes = 0
         /\ req[r].pc \in {"check", "done"}
         /\ req[r].pc = "done"
              => IF DocExists(req[r].saw)
                 THEN req[r].result.status = "already_claimed"
                 ELSE /\ req[r].result.code = 400
                      /\ req[r].result.detail = "Invalid wallet address"

\* C10 witness: a request with a malformed wallet string was rejected as
\* invalid wallet.
C10_Witness ==
  \E r \in Reqs :
    /\ Authorized(r) /\ Malformed(r)
    /\ req[r].result.detail = "Invalid wallet address"

IsCreate(ins) == ins.program_id = "AssociatedTokenProgram" /\ ins.data = <<>>

IsCheckedTransfer(ins) ==
  /\ ins.program_id = "Token2022"
  /\ Len(ins.data) = 10
  /\ ins.data[1] = CHECKED_TRANSFER

\* C11: the step that looks up the receiver's token account builds one
\* instruction, the checked transfer, when the account exists, and two, the
\* account creation and then the checked transfer, when it does not.
C11_InstructionPlanShape ==
  [][\A r \in Reqs :
       (req[r].pc = "acct" /\ req'[r].pc = "blockhash")
         => LET plan == req'[r].instructions
                ata == find_ata(<<"pk", req[r].wallet>>, MINT_ADDRESS)
            IN  /\ IsCheckedTransfer(plan[Len(plan)])
                /\ IF ata \in chain.atas
                   THEN Len(plan) = 1
                   ELSE Len(plan) = 2 /\ IsCreate(plan[1])
                        /\ plan[1].accounts[2][1] = ata]_vars

\* C11 witness: one request holds a two-instruction plan and another a
\* one-instruction plan.
C11_Witness ==
  \E r1, r2 \in Reqs :
    /\ Len(req[r1].instructions) = 2 /\ IsCreate(req[r1].instructions[1])
    /\ Len(req[r2].instructions) = 1 /\ IsCheckedTransfer(req[r2].instructions[1])

\* Division of a byte-sequence natural by ten, from the top byte down.
RECURSIVE DivTen(_, _, _)
DivTen(bytes, i, rem) ==
  IF i = 0 THEN [q |-> <<>>, r |-> rem]
  ELSE LET v == rem * 256 + bytes[i]
           rest == DivTen(bytes, i - 1, v % 10)
       IN  [q |-> rest.q \o <<v \div 10>>, r |-> rest.r]

\* bytes is the number 10^d: dividing by ten d times leaves 1, exactly.
RECURSIVE IsTenTo(_, _)
IsTenTo(bytes, d) ==
  IF d = 0
  THEN bytes[1] = 1 /\ \A i \in 2..Len(bytes) : bytes[i] = 0
  ELSE LET x == DivTen(bytes, Len(bytes), 0)
       IN  x.r = 0 /\ IsTenTo(x.q, d - 1)

WellPacked ==
  /\ Len(pack.data) = 10
  /\ pack.data[1] = CHECKED_TRANSFER
  /\ IsTenTo(SubSeq(pack.data, 2, 9), pack.decimals)
  /\ pack.data[10] = pack.decimals

\* C12 (as stated): for every decimals value of the mint (0..255) the packed
\* payload is 10 bytes: the opcode 12, 10^decimals as eight little-endian
\* bytes, the decimals byte.
C12_PayloadTenBytes == pack.pc = "packed" => WellPacked

\* C12 (amended): for decimals up to 19 the payload is those 10 bytes (for 6
\* decimals the amount bytes are those of 1,000,000); from 20 decimals on
\* 10^decimals does not fit eight bytes and the packing raises struct.error.
C12_PayloadTenBytesUpTo19 ==
  pack.pc = "packed"
    => IF pack.decimals <= 19
       THEN /\ WellPacked
            /\ pack.decimals = 6
                 => SubSeq(pack.data, 2, 9) = <<64, 66, 15, 0, 0, 0, 0, 0>>
       ELSE pack.data = StructError

\* C12 witness: the payload for 6 decimals has been packed.
C12_Witness ==
  pack.pc = "packed" /\ pack.decimals = 6 /\ Len(pack.data) = 10

\* Request r ended in RECORDED: it answered success with its wallet and the
\* signature its submission returned, and its identity's document holds them.
Recorded(r) ==
  /\ req[r].result = Response("success", 200, "", req[r].wallet, req[r].sig)
  /\ [req |-> r, uid |-> req[r].uid, sig |-> req[r].sig] \in acked
  /\ airdrops[req[r].uid] =
       [uid |-> req[r].uid, wallet |-> req[r].wallet, tx |-> req[r].sig, claimed |-> TRUE]

\* C13: a request of an identity whose requests never overlap, once past
\* authentication, eventually ends; and when it ends having found no
\* document and with no call failed, it ended in RECORDED.
C13_EndsRecorded ==
  /\ \A r \in Reqs : (req[r].pc = "check") ~> (req[r].pc = "done")
  /\ [](\A r \in Reqs :
          (/\ Authorized(r) /\ Sequential(req[r].uid)
           /\ req[r].pc = "done" /\ req[r].saw = NoDoc
           /\ req[r].wallet \in WellFormed /\ req[r].failedAt = "")
            => Recorded(r))

\* C13 witness: a request of an identity without overlapping requests has
\* ended in RECORDED.
C13_Witness ==
  \E r \in Reqs :
    /\ Authorized(r) /\ Sequential(req[r].uid)
    /\ req[r].pc = "done" /\ req[r].saw = NoDoc
    /\ Recorded(r)

\* r2 is the next request of r1's identity after r1.
NextOfSameIdentity(r1, r2) ==
  /\ r1 < r2 /\ Authorized(r1) /\ req[r1].uid = req[r2].uid
  /\ \A q \in Reqs : (r1 < q /\ q < r2) => req[q].uid # req[r1].uid

\* C14: a request that failed at the decimals query or at the blockhash
\* fetch has submitted nothing and written nothing, nothing of it has
\* landed, and the next request of its identity (none overlapping) finds no
\* document, as a first claim does.
C14_QueryFailureNoSideEffect ==
  \A r1 \in Reqs :
    req[r1].failedAt \in {"supply", "blockhash"}
      => /\ req[r1].submits = 0 /\ req[r1].writes = 0
         /\ \A t \in landed : t.req # r1
         /\ \A r2 \in Reqs :
              (/\ NextOfSameIdentity(r1, r2) /\ Sequential(req[r1].uid)
               /\ req[r2].pc \notin {"idle", "check"})
                => /\ req[r2].saw = NoDoc
                   /\ req[r2].result.status # "already_claimed"

\* C14 witness: after a request failed at one of the two queries, the retry
\* of the same identity went on to the ledger.
C14_Witness ==
  \E r1, r2 \in Reqs :
    /\ req[r1].failedAt \in {"supply", "blockhash"}
    /\ NextOfSameIdentity(r1, r2) /\ Sequential(req[r1].uid)
    /\ req[r2].saw = NoDoc /\ req[r2].calls >= 1

\* C15: when a request that prepared its transfer against a sufficient
\* balance submits after another identity's transfer has left the balance
\* too low, it ends as exhausted, having submitted once and written nothing.
C15_LateInsufficientFundsExhausted ==
  [][\A r \in Reqs :
       (/\ req[r].pc = "send" /\ req'[r] # req[r]
        /\ req[r].funded
        /\ chain.balance < req[r].raw_amount
        /\ Execute([chain EXCEPT !.balance = req[r].raw_amount],
                   req[r].instructions) # Failed
        /\ \E t \in landed : t.uid # req[r].uid)
         => /\ req'[r].pc = "done"
            /\ req'[r].result.detail = "exhausted"
            /\ req'[r].submits = 1 /\ req'[r].writes = 0
            /\ airdrops' = airdrops]_vars

\* C16: a request that failed before its submission never carries the same
\* response as a request that failed at or after its submission, so the
\* response tells "never attempted" from "possibly attempted".
C16_FailureStageDistinguishable ==
  \A r1, r2 \in Reqs :
    (/\ req[r1].pc = "done" /\ req[r1].failedAt \in {"wallet", "supply", "acct", "blockhash"}
     /\ req[r2].pc = "done" /\ req[r2].failedAt \in {"send", "save"})
      => req[r1].result # req[r2].result

\* C18: a step of a request leaves the document of every identity other
\* than its own as it was, and its check answers already_claimed exactly
\* when its own identity's document exists.
C18_OwnRecordOnly ==
  [][\A r \in Reqs :
       req'[r] # req[r]
         => /\ \A u \in Uids : u # req'[r].uid => airdrops'[u] = airdrops[u]
            /\ req[r].pc = "check"
                 => /\ req'[r].saw = airdrops[req[r].uid]
                    /\ (req'[r].result.status = "already_claimed")
                         <=> DocExists(airdrops[req[r].uid])]_vars

\* C18 witness: with one identity's document written, a request of another
\* identity has passed its check as a first claim.
C18_Witness ==
  \E r \in Reqs, u \in Uids :
    /\ Authorized(r) /\ req[r].uid # u
    /\ DocExists(airdrops[u])
    /\ req[r].pc \in {"supply", "acct", "blockhash", "send", "save"}
    /\ airdrops[req[r].uid] = NoDoc

VerifiableHeader(h) == h.scheme = "Bearer" /\ h.token \in Uids

\* C19: a request whose Authorization header is missing, not Bearer or not
\* verifiable has ended with 401 on arrival: it has no identity, read no
\* document, made no ledger call or submission and wrote nothing.
C19_UnauthorizedRejectedUpstream ==
  /\ [](\A r \in Reqs :
          (req[r].pc # "idle" /\ ~VerifiableHeader(req[r].header))
            => /\ req[r].pc = "done"
               /\ req[r].result.status = "error" /\ req[r].result.code = 401
               /\ req[r].uid = NoUid /\ req[r].saw = NoDoc
               /\ req[r].calls = 0 /\ req[r].submits = 0 /\ req[r].writes = 0)
  /\ [][\A r \in Reqs :
          (req'[r] # req[r] /\ ~VerifiableHeader(req'[r].header))
            => /\ req[r].pc = "idle"
               /\ airdrops' = airdrops /\ chain' = chain /\ landed' = landed]_vars

\* C19 witness: requests with a missing, a non-Bearer and a forged token
\* have been rejected while a document exists.
C19_Witness ==
  /\ \E u \in Uids : DocExists(airdrops[u])
  /\ \E r \in Reqs :
       /\ req[r].result.code = 401
       /\ req[r].header \in {NoHeader, [scheme |-> "Basic", token |-> "u1"],
                             [scheme |-> "Bearer", token |-> "forged"]}
====
